---- MODULE Spec2Model ----
(***************************************************************************)
(* A model of helvm/blc: the binary lambda calculus parser                 *)
(* (src/src/parser.rs) and the execution pipeline (src/src/execution.rs).  *)
(*                                                                         *)
(* Byte strings are sequences of byte codes.  A Rust panic (a slice index  *)
(* out of range, an unwrap of None) is the outcome [kind |-> "Panic"].     *)
(***************************************************************************)
EXTENDS Integers, Sequences, FiniteSets, TLC

\* ------------------------------------------------------------------ bounds
\* longest '0'/'1' string handed to the parser before whitespace is inserted
MaxLen == 7
\* longest '0'/'1' string whitespace is inserted into
MaxWsBase == 6
\* most whitespace symbols inserted into one input
MaxWs == 2
\* longest program handed to run
MaxProgLen == 6
\* longest argument (in bytes) handed to run
MaxArgLen == 1

\* ------------------------------------------------------------------ bytes
Zero == 48
One == 49
Whitespace == {9, 10, 13, 32}

RECURSIVE Strings(_, _)
\* all sequences over alphabet of length at most n
Strings(alphabet, n) ==
    IF n = 0 THEN {<<>>}
    ELSE LET shorter == Strings(alphabet, n - 1)
         IN  shorter \cup {Append(s, a) : s \in {t \in shorter : Len(t) = n - 1}, a \in alphabet}

\* input[k..] for k <= len (the caller checks the range)
SliceFrom(input, k) == SubSeq(input, k + 1, Len(input))

\* ------------------------------------------------------------------ terms
Var(i) == [tag |-> "Var", i |-> i]
abs(body) == [tag |-> "Abs", body |-> body]
app(fun, arg) == [tag |-> "App", fun |-> fun, arg |-> arg]

RECURSIVE Serialize(_)
\* the BLC representation table: abstraction 00M, application 01MN,
\* variable i as i ones and a zero
Serialize(t) ==
    CASE t.tag = "Abs" -> <<Zero, Zero>> \o Serialize(t.body)
      [] t.tag = "App" -> <<Zero, One>> \o Serialize(t.fun) \o Serialize(t.arg)
      [] t.tag = "Var" -> [k \in 1..t.i |-> One] \o <<Zero>>

RECURSIVE IndicesPositive(_)
\* every variable of t is a De Bruijn index, counted from 1
IndicesPositive(t) ==
    CASE t.tag = "Abs" -> IndicesPositive(t.body)
      [] t.tag = "App" -> IndicesPositive(t.fun) /\ IndicesPositive(t.arg)
      [] t.tag = "Var" -> t.i >= 1

RECURSIVE TermsUpTo(_)
\* the terms (indices from 0, as the index type allows) whose
\* serialization has at most len symbols
TermsUpTo(len) ==
    IF len <= 0 THEN {}
    ELSE {Var(i) : i \in 0..(len - 1)}
         \cup {abs(b) : b \in TermsUpTo(len - 2)}
         \cup {app(f, a) : f \in TermsUpTo(len - 3), a \in TermsUpTo(len - 3)}

AllTerms == {t \in TermsUpTo(MaxLen) : Len(Serialize(t)) <= MaxLen}
Terms == {t \in AllTerms : IndicesPositive(t)}
WellFormed == {Serialize(t) : t \in Terms}

\* ------------------------------------------------------------------ parser
None == [kind |-> "None"]
Panic == [kind |-> "Panic"]
Some(term, rest) == [kind |-> "Some", term |-> term, rest |-> rest]
Ok(term) == [kind |-> "Ok", term |-> term]

\* input.iter().take_while(|&b| *b == b'1').count(), cut at the lookahead
CountOnesLookahead(input) ==
    CHOOSE i \in 0..2 :
        /\ i <= Len(input)
        /\ \A k \in 1..i : input[k] = One
        /\ (i = 2 \/ i = Len(input) \/ input[i + 1] # One)

\* input.iter().take_while(|&b| *b == b'1').count()
CountOnes(input) ==
    CHOOSE i \in 0..Len(input) :
        /\ \A k \in 1..i : input[k] = One
        /\ (i = Len(input) \/ input[i + 1] # One)

\* the variable arm with the terminator left in the remainder
VariableProductionKeepTerminator(input) ==
    LET i == CountOnes(input)
    IN  IF Len(SliceFrom(input, 2)) = 0
        THEN Some(Var(i), <<>>)
        ELSE IF i > Len(input) THEN Panic
        ELSE Some(Var(i), SliceFrom(input, i))

\* the b"10" | b"11" arm; input has at least two symbols
VariableProduction(input) ==
    LET i == CountOnes(input)
    IN  IF Len(SliceFrom(input, 2)) = 0
        THEN Some(Var(i), <<>>)
        ELSE IF i + 1 > Len(input) THEN Panic
        ELSE Some(Var(i), SliceFrom(input, i + 1))

\* the b"00" arm that drops the body's remainder
AbstractionProductionDropRest(body) ==
    IF body.kind = "Some" THEN Some(abs(body.term), <<>>) ELSE body

\* the b"00" arm, given the result of the recursive parse of input[2..]
AbstractionProduction(body) ==
    IF body.kind = "Some" THEN Some(abs(body.term), body.rest) ELSE body

\* the b"01" arm with function and argument exchanged
ApplicationProductionSwapped(r1, r2) ==
    IF r2.kind = "Some" THEN Some(app(r2.term, r1.term), r2.rest) ELSE r2

\* the inner part of the b"01" arm, given both recursive results
ApplicationProduction(r1, r2) ==
    IF r2.kind = "Some" THEN Some(app(r1.term, r2.term), r2.rest) ELSE r2

RECURSIVE _parse(_)
_parse(input) ==
    IF Len(input) = 0 THEN None
    ELSE IF Len(input) < 2 THEN Panic
    ELSE LET prefix == SubSeq(input, 1, 2)
         IN  CASE prefix = <<Zero, Zero>> ->
                    AbstractionProduction(_parse(SliceFrom(input, 2)))
               [] prefix = <<Zero, One>> ->
                    LET r1 == _parse(SliceFrom(input, 2))
                    IN  IF r1.kind = "Some"
                        THEN ApplicationProduction(r1, _parse(r1.rest))
                        ELSE r1
               [] prefix \in {<<One, Zero>>, <<One, One>>} ->
                    VariableProduction(input)
               [] OTHER -> None

\* the filter that lets carriage returns through
unspacedKeepCR(input) == SelectSeq(input, LAMBDA b : b \notin {9, 10, 32})

\* input.iter().filter(|&b| ![9, 10, 13, 32].contains(b))
unspaced(input) == SelectSeq(input, LAMBDA b : b \notin Whitespace)

\* _parse(&unspaced).unwrap().0
parse(input) ==
    LET r == _parse(unspaced(input))
    IN  IF r.kind = "Some" THEN Ok(r.term) ELSE Panic

\* ------------------------------------------------------------------ collaborators
\* Church booleans: bit 0 is \x.\y.x (index 2), bit 1 is \x.\y.y (index 1)
EncodeBit(bit) == IF bit = 0 THEN abs(abs(Var(2))) ELSE abs(abs(Var(1)))
Nil == abs(abs(Var(1)))
Pair(head, tail) == abs(app(app(Var(1), head), tail))
PairHead(t) == t.body.fun.arg
PairTail(t) == t.body.arg

\* the bits of a byte, most significant first
BitsOf(byte) == [k \in 1..8 |-> (byte \div (2 ^ (8 - k))) % 2]

RECURSIVE EncodeBits(_)
EncodeBits(bits) ==
    IF Len(bits) = 0 THEN Nil
    ELSE Pair(EncodeBit(Head(bits)), EncodeBits(Tail(bits)))

RECURSIVE encode(_)
\* a byte string as a Church list of bytes, a byte as a Church list of bits
encode(bytes) ==
    IF Len(bytes) = 0 THEN Nil
    ELSE Pair(EncodeBits(BitsOf(Head(bytes))), encode(Tail(bytes)))

DecodeBit(t) == IF t = abs(abs(Var(2))) THEN 0 ELSE 1

RECURSIVE DecodeByte(_, _)
\* the number whose bits are the Church list t, acc holding the bits read
DecodeByte(t, acc) ==
    IF t = Nil THEN acc
    ELSE DecodeByte(PairTail(t), 2 * acc + DecodeBit(PairHead(t)))

RECURSIVE decode(_)
\* the byte string a Church list of bytes stands for
decode(t) ==
    IF t = Nil THEN <<>>
    ELSE <<DecodeByte(PairHead(t), 0)>> \o decode(PairTail(t))

RECURSIVE StrictParse(_)
\* the grammar of the representation table, with every variable
\* terminated by its zero
StrictParse(bytes) ==
    IF Len(bytes) < 2 THEN None
    ELSE LET prefix == SubSeq(bytes, 1, 2)
         IN  CASE prefix = <<Zero, Zero>> ->
                    LET body == StrictParse(SliceFrom(bytes, 2))
                    IN  IF body.kind = "Some"
                        THEN Some(abs(body.term), body.rest) ELSE None
               [] prefix = <<Zero, One>> ->
                    LET r1 == StrictParse(SliceFrom(bytes, 2))
                        r2 == StrictParse(r1.rest)
                    IN  IF r1.kind = "Some" /\ r2.kind = "Some"
                        THEN Some(app(r1.term, r2.term), r2.rest) ELSE None
               [] prefix \in {<<One, Zero>>, <<One, One>>} ->
                    LET i == CountOnes(bytes)
                    IN  IF i < Len(bytes) /\ bytes[i + 1] = Zero
                        THEN Some(Var(i), SliceFrom(bytes, i + 1)) ELSE None
               [] OTHER -> None

DecodeError == [kind |-> "Err"]

\* the binary decoder: a Term, or a decode error when the bytes are not
\* exactly one complete encoding
from_binary(bytes) ==
    LET r == StrictParse(bytes)
    IN  IF r.kind = "Some" /\ Len(r.rest) = 0 THEN Ok(r.term) ELSE DecodeError

\* ------------------------------------------------------------------ state
VARIABLES
    base,        \* the '0'/'1' string the caller starts from
    input,       \* the byte string handed to the parser
    pc,          \* "input", "_parse" or "parse": which entry point has returned
    res,         \* what the entry point returned
    program,     \* run's blc_program
    argument,    \* run's blc_argument
    rpc,         \* where the call of run stands
    steps,       \* the collaborator calls run has made, in order
    decoded,     \* program: the result of from_binary
    encoded,     \* the Church-encoded argument
    calculation, \* the application, then its normal form
    ret          \* what run returned

parserVars == <<base, input, pc, res>>
runVars == <<program, argument, rpc, steps, decoded, encoded, calculation, ret>>
vars == <<base, input, pc, res,
          program, argument, rpc, steps, decoded, encoded, calculation, ret>>

NoResult == [kind |-> "NoResult"]
InvalidProgram == [kind |-> "Err", error |-> "InvalidProgram"]
OkString(bytes) == [kind |-> "Ok", value |-> bytes]

ParserIdle ==
    /\ base = <<>>
    /\ input = <<>>
    /\ pc = "idle"
    /\ res = NoResult

RunIdle ==
    /\ program = <<>>
    /\ argument = <<>>
    /\ rpc = "idle"
    /\ steps = <<>>
    /\ decoded = NoResult
    /\ encoded = NoResult
    /\ calculation = NoResult
    /\ ret = NoResult

\* ------------------------------------------------------------------ parser calls
Init ==
    /\ base \in Strings({Zero, One}, MaxLen)
    /\ input = base
    /\ pc = "input"
    /\ res = NoResult
    /\ RunIdle

WsCount(s) == Len(SelectSeq(s, LAMBDA b : b \in Whitespace))

\* the caller puts one whitespace symbol somewhere into the input
InsertWhitespace ==
    /\ pc = "input"
    /\ Len(base) <= MaxWsBase
    /\ WsCount(input) < MaxWs
    /\ \E pos \in 0..Len(input), w \in Whitespace :
           input' = SubSeq(input, 1, pos) \o <<w>> \o SliceFrom(input, pos)
    /\ UNCHANGED <<base, pc, res>>
    /\ UNCHANGED runVars

\* a call of _parse on the input as it is
CallParseRec ==
    /\ pc = "input"
    /\ res' = _parse(input)
    /\ pc' = "_parse"
    /\ UNCHANGED <<base, input>>
    /\ UNCHANGED runVars

\* a call of the public parse
CallParse ==
    /\ pc = "input"
    /\ res' = parse(input)
    /\ pc' = "parse"
    /\ UNCHANGED <<base, input>>
    /\ UNCHANGED runVars

Next == InsertWhitespace \/ CallParseRec \/ CallParse

Spec == Init /\ [][Next]_vars

\* ------------------------------------------------------------------ run
ArgBytes == {0, 97}

RunInit ==
    /\ program \in Strings({Zero, One}, MaxProgLen)
    /\ argument \in Strings(ArgBytes, MaxArgLen)
    /\ rpc = "start"
    /\ steps = <<>>
    /\ decoded = NoResult
    /\ encoded = NoResult
    /\ calculation = NoResult
    /\ ret = NoResult
    /\ ParserIdle

\* from_binary, with the error check left out
RunFromBinaryUnchecked ==
    /\ rpc = "start"
    /\ decoded' = from_binary(program)
    /\ steps' = Append(steps, "from_binary")
    /\ rpc' = "unwrapped"
    /\ UNCHANGED <<program, argument, encoded, calculation, ret>>
    /\ UNCHANGED parserVars

\* let program = from_binary(blc_program);
\* if program.is_err() { return Err(InvalidProgram) }
RunFromBinary ==
    /\ rpc = "start"
    /\ decoded' = from_binary(program)
    /\ steps' = Append(steps, "from_binary")
    /\ IF decoded'.kind = "Err"
       THEN rpc' = "returned" /\ ret' = InvalidProgram
       ELSE rpc' = "unwrapped" /\ ret' = ret
    /\ UNCHANGED <<program, argument, encoded, calculation>>
    /\ UNCHANGED parserVars

\* encode(blc_argument)
RunEncode ==
    /\ rpc = "unwrapped"
    /\ encoded' = encode(argument)
    /\ steps' = Append(steps, "encode")
    /\ rpc' = "encoded"
    /\ UNCHANGED <<program, argument, decoded, calculation, ret>>
    /\ UNCHANGED parserVars

\* the application with the operands exchanged
ApplySwapped(prog, arg) == app(arg, prog)

\* program.unwrap().app(...)
Apply(prog, arg) == app(prog, arg)

RunApp ==
    /\ rpc = "encoded"
    /\ calculation' = Apply(decoded.term, encoded)
    /\ steps' = Append(steps, "app")
    /\ rpc' = "applied"
    /\ UNCHANGED <<program, argument, decoded, encoded, ret>>
    /\ UNCHANGED parserVars

\* beta_full is entered; it may never return
RunBetaFullCall ==
    /\ rpc = "applied"
    /\ steps' = Append(steps, "beta_full")
    /\ rpc' = "reducing"
    /\ UNCHANGED <<program, argument, decoded, encoded, calculation, ret>>
    /\ UNCHANGED parserVars

\* beta_full returns some normal form that decode accepts
RunBetaFullReturn ==
    /\ rpc = "reducing"
    /\ \E out \in Strings(ArgBytes, MaxArgLen) : calculation' = encode(out)
    /\ rpc' = "reduced"
    /\ UNCHANGED <<program, argument, steps, decoded, encoded, ret>>
    /\ UNCHANGED parserVars

\* Ok(decode(calculation))
RunDecode ==
    /\ rpc = "reduced"
    /\ ret' = OkString(decode(calculation))
    /\ steps' = Append(steps, "decode")
    /\ rpc' = "returned"
    /\ UNCHANGED <<program, argument, decoded, encoded, calculation>>
    /\ UNCHANGED parserVars

RunNext ==
    \/ RunFromBinary
    \/ RunEncode
    \/ RunApp
    \/ RunBetaFullCall
    \/ RunBetaFullReturn
    \/ RunDecode

RunSpec == RunInit /\ [][RunNext]_vars

\* ------------------------------------------------------------------ claims
Ones(n) == [k \in 1..n |-> One]
IsPrefix(p, s) == Len(p) <= Len(s) /\ SubSeq(s, 1, Len(p)) = p
\* _parse has returned from a call on a pure '0'/'1' string
ParsedRec == pc = "_parse" /\ input = base

\* C1: an input of exactly n ones, n >= 1, parses to Variable(n) with an
\* empty remainder
C1_VariableBoundary ==
    \A n \in 1..MaxLen :
        (ParsedRec /\ input = Ones(n)) => res = Some(Var(n), <<>>)

\* C2: on an input that is over '0'/'1' once whitespace is stripped, the
\* parser returns a Term or a failure value and never aborts
C2_NeverAborts ==
    (ParsedRec \/ pc = "parse") => res.kind # "Panic"

\* C4: a well-formed encoding followed by a non-empty leftover is rejected
\* by the public parse
C4_LeftoverRejected ==
    \A s \in WellFormed :
        (pc = "parse" /\ IsPrefix(s, unspaced(input)) /\ Len(s) < Len(unspaced(input)))
            => res.kind # "Ok"

\* C5: n ones, a zero, then any rest parse to Variable(n) and leave
\* exactly rest (rest ranges over every '0'/'1' string, the empty and the
\* well-formed ones included)
C5_VariableTerminator ==
    \A n \in 1..MaxLen :
        (ParsedRec /\ IsPrefix(Ones(n) \o <<Zero>>, input))
            => res = Some(Var(n), SliceFrom(input, n + 1))

C5_Witness ==
    /\ ParsedRec
    /\ input = <<One, One, One, Zero, Zero, Zero, One>>
    /\ res = Some(Var(3), <<Zero, Zero, One>>)

\* C9: "00" s1 r parses to Abstraction(parse(s1)) with remainder r, and
\* "01" s1 s2 r to Application(parse(s1), parse(s2)) with remainder r,
\* for well-formed s1, s2 and any r
C9_PrefixProductions ==
    ParsedRec =>
        /\ \A s1 \in WellFormed :
               IsPrefix(<<Zero, Zero>> \o s1, input)
                   => res = Some(abs(_parse(s1).term), SliceFrom(input, 2 + Len(s1)))
        /\ \A s1, s2 \in WellFormed :
               IsPrefix(<<Zero, One>> \o s1 \o s2, input)
                   => res = Some(app(_parse(s1).term, _parse(s2).term),
                                 SliceFrom(input, 2 + Len(s1) + Len(s2)))

C9_Witness ==
    /\ ParsedRec
    /\ input = <<Zero, One, One, Zero, One, Zero, One>>
    /\ res = Some(app(Var(1), Var(1)), <<One>>)

\* C10: a call of _parse that returns a Term returns a remainder that is a
\* suffix of its input and at least 2 symbols shorter
C10_Progress ==
    (pc = "_parse" /\ res.kind = "Some")
        => /\ Len(res.rest) + 2 <= Len(input)
           /\ res.rest = SliceFrom(input, Len(input) - Len(res.rest))

C10_Witness ==
    /\ pc = "_parse"
    /\ input = <<One, Zero, One>>
    /\ res = Some(Var(1), <<One>>)

\* C6 as stated: every Term, the ones with a variable of index 0 included,
\* serializes to a string that parses back to it with an empty remainder
\* and re-serializes to the same string
C6_RoundTripAnyIndex ==
    \A t \in AllTerms :
        (ParsedRec /\ input = Serialize(t))
            => res = Some(t, <<>>) /\ Serialize(res.term) = input

\* C6: every Term whose variables all have an index of at least 1
\* serializes to a string that parses back to it with an empty remainder
\* and re-serializes to the same string
C6_RoundTrip ==
    \A t \in Terms :
        (ParsedRec /\ input = Serialize(t))
            => res = Some(t, <<>>) /\ Serialize(res.term) = input

C6_Witness ==
    /\ ParsedRec
    /\ input = <<Zero, One, One, One, Zero, One, Zero>>
    /\ res = Some(app(Var(2), Var(1)), <<>>)

\* C7: whitespace inserted anywhere into a well-formed string does not
\* change the Term parse returns, and stripping deletes exactly the
\* inserted symbols, keeping the order of the others
C7_WhitespaceInvariance ==
    /\ pc \in {"input", "_parse", "parse"} => unspaced(input) = base
    /\ (pc = "parse" /\ base \in WellFormed)
           => res.kind = "Ok" /\ res = parse(base)

C7_Witness ==
    /\ pc = "parse"
    /\ input = <<Zero, 9, Zero, One, 13, One, Zero>>
    /\ base = <<Zero, Zero, One, One, Zero>>
    /\ res = Ok(abs(Var(2)))

\* C3: when the decoder fails, run returns InvalidProgram and runs none of
\* the later steps; InvalidProgram is the only error, returned only then
C3_InvalidProgram ==
    /\ (rpc # "idle" /\ from_binary(program).kind = "Err")
           => /\ rpc \in {"start", "returned"}
              /\ rpc = "returned" => ret = InvalidProgram /\ steps = <<"from_binary">>
              /\ encoded = NoResult /\ calculation = NoResult
    /\ ret.kind = "Err"
           => ret = InvalidProgram /\ from_binary(program).kind = "Err"

C3_Witness ==
    /\ rpc = "returned"
    /\ program = <<Zero, Zero, One>>
    /\ argument = <<97>>
    /\ ret = InvalidProgram

RunSteps == <<"from_binary", "encode", "app", "beta_full", "decode">>

\* C8: on a program that decodes, run decodes, encodes the argument,
\* applies the program to it, normalizes and decodes the result, in that
\* order and once each; it returns Ok of the decoded normal form exactly
\* when beta_full has returned, and nothing while beta_full has not
C8_RunOrder ==
    (rpc # "idle" /\ from_binary(program).kind = "Ok") =>
        /\ IsPrefix(steps, RunSteps)
        /\ rpc \in {"applied", "reducing"}
               => calculation = [tag |-> "App",
                                 fun |-> from_binary(program).term,
                                 arg |-> encode(argument)]
        /\ rpc \in {"start", "unwrapped", "encoded", "applied", "reducing", "reduced"}
               => ret = NoResult
        /\ rpc = "reduced" => steps = SubSeq(RunSteps, 1, 4)
        /\ rpc = "returned"
               => /\ steps = RunSteps
                  /\ ret = OkString(decode(calculation))

C8_Witness ==
    /\ rpc = "returned"
    /\ program = <<Zero, Zero, One, Zero>>
    /\ argument = <<97>>
    /\ steps = RunSteps
    /\ ret = OkString(<<97>>)
====
